---- MODULE Spec2Model ----
(***************************************************************************)
(* SRP (steering response power, delay and sum) DOA estimation for a       *)
(* uniform linear array: src/conventional algorithms/srp.py, class SRP.    *)
(*                                                                         *)
(* One SRP instance is constructed and forward(x) is invoked on it once.   *)
(* Numbers that the code holds as floats are exact rationals <<n, d>> with *)
(* d > 0; <<n, 0>> is NaN (the mean of zero elements).  Indices are        *)
(* 0-based as in the code.  The magnitudes |response_complex| that lines   *)
(* 83-89 derive from the spectrum and the steering vector are inputs of    *)
(* each sweep iteration, recorded in response_abs.                         *)
(***************************************************************************)
EXTENDS Integers, Sequences, FiniteSets

VARIABLES
    pc,             \* position: new, ready, stft, srp, sweep, done, error
    self,           \* the instance's fields set by __init__ (window: its length)
    x,              \* shape of the waveform passed to forward: (T, C)
    err,            \* the exception that ended the invocation, if any
    sig_stft,       \* retained spectrum rows, each tagged with its raw bin
    f_analog,       \* retained analog frequencies
    n_frames,       \* number of STFT frames T
    theta,          \* candidate angle grid in degrees
    pending,        \* loop indices j of range(len(theta)) not yet processed
    response_abs,   \* |response_complex| read so far, by (row, frame, angle)
    sweep_order,    \* the angle indices whose iteration has run, in the order run
    power_map,      \* (F, angle) power grid
    power_map_mean, \* (angle,) power curve
    doa_order,      \* arg-max index
    result          \* <<>> or <<doa_est, power_map_mean>>

vars == <<pc, self, x, err, sig_stft, f_analog, n_frames, theta, pending,
          response_abs, sweep_order, power_map, power_map_mean, doa_order, result>>

\* ---------------------------------------------------------------- bounds
\* largest magnitude of a beamformer response drawn for a sweep iteration
MaxMag == 2

\* ---------------------------------------------------------------- inputs
DInterValues == {1, 2, 3}
CValues == {12}
NFftValues == {4}
HopValues == {2}
WindowLengthValues == {2, 4, 512}
FsValues == {8}
FLowValues == {2, 3, 5}
FHighValues == {0, 2, 3, 4, 6}
ResolutionValues == {0, 100, 180, 200}
SampleCounts == {0, 3}
ChannelCounts == {0, 2}
Magnitudes == 0..MaxMag

\* ---------------------------------------------------------------- rationals
Rat(n) == <<n, 1>>
IsNaN(a) == a[2] = 0
RatAdd(a, b) == <<a[1] * b[2] + b[1] * a[2], a[2] * b[2]>>
RatSub(a, b) == <<a[1] * b[2] - b[1] * a[2], a[2] * b[2]>>
RatMulInt(a, k) == <<a[1] * k, a[2]>>
RatDivInt(a, k) == IF k < 0 THEN <<-a[1], a[2] * (-k)>> ELSE <<a[1], a[2] * k>>
RatSquare(a) == <<a[1] * a[1], a[2] * a[2]>>
RatEq(a, b) == ~IsNaN(a) /\ ~IsNaN(b) /\ a[1] * b[2] = b[1] * a[2]
RatLt(a, b) == ~IsNaN(a) /\ ~IsNaN(b) /\ a[1] * b[2] < b[1] * a[2]
RatLe(a, b) == ~IsNaN(a) /\ ~IsNaN(b) /\ a[1] * b[2] <= b[1] * a[2]

\* functions over 0..n-1 stand for tensors of length n
Size(t) == Cardinality(DOMAIN t)

RECURSIVE SumInt(_, _)
SumInt(t, n) == IF n = 0 THEN 0 ELSE SumInt(t, n - 1) + t[n - 1]

RECURSIVE SumRat(_, _)
SumRat(t, n) == IF n = 0 THEN Rat(0) ELSE RatAdd(SumRat(t, n - 1), t[n - 1])

\* torch.mean of a tensor of integers / of rationals; NaN over zero elements
MeanInt(t) == <<SumInt(t, Size(t)), Size(t)>>
MeanRat(t) == RatDivInt(SumRat(t, Size(t)), Size(t))

\* torch.linspace(start, end, steps) with rational end points
Linspace(start, end, steps) ==
    [i \in 0..(steps - 1) |->
        IF steps = 1 THEN start
        ELSE RatAdd(start, RatDivInt(RatMulInt(RatSub(end, start), i), steps - 1))]

\* int(v) on a non-negative rational: truncation
IntTrunc(a) == a[1] \div a[2]

\* ---------------------------------------------------------------- helpers
NoErr == [type |-> "none", at |-> "none"]
Unconstructed ==
    [d_inter |-> 0, c |-> 0, n_fft |-> 0, hop_length |-> 0, window |-> 0, fs |-> 0,
     resolution |-> 0, f_low |-> 0, f_high |-> 0]
NoInput == [n_samples |-> 0, channels |-> 0]
Empty == <<>>

\* the check with >= in place of >
NyquistViolatedGe(s) ==
    LET den == 2 * s.f_high
    IN  IF den > 0 THEN s.d_inter * den >= s.c ELSE s.d_inter * den <= s.c
\* self.d_inter > self.c / (2 * self.f_high), for 2 * f_high # 0
NyquistViolated(s) ==
    LET den == 2 * s.f_high
    IN  IF den > 0 THEN s.d_inter * den > s.c ELSE s.d_inter * den < s.c

\* f_analog = torch.linspace(0, self.fs / 2, self.n_fft // 2 + 1)
RawFrequencies(s) == Linspace(Rat(0), <<s.fs, 2>>, (s.n_fft \div 2) + 1)

\* the band predicate with the upper edge included
BandMaskClosed(s, f) == RatLe(Rat(s.f_low), f) /\ RatLe(f, Rat(s.f_high))
\* f_use_idx = (f_analog >= self.f_low) & (f_analog < self.f_high)
BandMask(s, f) == RatLe(Rat(s.f_low), f) /\ RatLt(f, Rat(s.f_high))

\* t[mask]: the entries of t whose mask is TRUE, in their original order
RECURSIVE MaskSelect(_, _, _)
MaskSelect(t, mask, n) ==
    IF n = 0 THEN <<>>
    ELSE LET rest == MaskSelect(t, mask, n - 1)
         IN  IF mask[n - 1] THEN Append(rest, t[n - 1]) ELSE rest

\* a 1-based sequence as a 0-based tensor
Tensor(seq) == [i \in 0..(Len(seq) - 1) |-> seq[i + 1]]

\* number of frames of torch.stft with center=True
FrameCount(s, in) == 1 + (in.n_samples \div s.hop_length)

\* torch.stft raises when self.window (self.window holds window_length
\* coefficients; the model keeps their number) is not of length
\* win_length = n_fft, and its reflect padding (n_fft // 2 on each side)
\* raises on a waveform with no more than n_fft // 2 samples or no channel
StftRejects(s, in) ==
    \/ s.window # s.n_fft
    \/ in.n_samples <= (s.n_fft \div 2)
    \/ in.channels = 0

\* int(180 / self.resolution + 1), for resolution > 0
GridLength(s) == IntTrunc(RatAdd(<<180, s.resolution>>, Rat(1)))

\* theta = torch.linspace(-90, 90, int(180 / self.resolution + 1))
ThetaGrid(s) == Linspace(Rat(-90), Rat(90), GridLength(s))

\* the mean over frames of the squared magnitudes
MeanOfSquares(mags) == MeanInt([t \in DOMAIN mags |-> mags[t] * mags[t]])
\* response_norm ** 2 with response_norm = mean over frames of |response|
ResponsePower(mags) == RatSquare(MeanInt(mags))

\* a write that also adds the power into the next column
WriteColumnAccumulate(grid, j, col) ==
    [f \in DOMAIN grid |->
        [a \in DOMAIN grid[f] |->
            IF a = j THEN ResponsePower(col[f])
            ELSE IF a = j + 1 THEN RatAdd(grid[f][a], ResponsePower(col[f]))
            ELSE grid[f][a]]]
\* power_map[:, j] = response_norm ** 2
WriteColumn(grid, j, col) ==
    [f \in DOMAIN grid |->
        [a \in DOMAIN grid[f] |-> IF a = j THEN ResponsePower(col[f]) ELSE grid[f][a]]]

\* torch.mean(power_map, dim=0)
FrequencyMean(grid, n_angles) ==
    [a \in 0..(n_angles - 1) |-> MeanRat([f \in DOMAIN grid |-> grid[f][a]])]

\* torch.argmax: NaN counts as the largest value, the first maximum wins
Exceeds(a, b) == IF IsNaN(b) THEN FALSE ELSE IF IsNaN(a) THEN TRUE ELSE RatLt(b, a)
Maxima(curve) == {i \in DOMAIN curve : \A k \in DOMAIN curve : ~Exceeds(curve[k], curve[i])}
\* an arg-max where the last maximum wins
ArgMaxLast(curve) == CHOOSE i \in Maxima(curve) : \A k \in Maxima(curve) : k <= i
\* torch.argmax(power_map_mean)
ArgMax(curve) == CHOOSE i \in Maxima(curve) : \A k \in Maxima(curve) : i <= k

\* doa_order * self.resolution - 90
AngleOf(s, index) == index * s.resolution - 90

\* ---------------------------------------------------------------- state machine
Init ==
    /\ pc = "new"
    /\ self = Unconstructed
    /\ x = NoInput
    /\ err = NoErr
    /\ sig_stft = Empty
    /\ f_analog = Empty
    /\ n_frames = 0
    /\ theta = Empty
    /\ pending = {}
    /\ response_abs = Empty
    /\ sweep_order = Empty
    /\ power_map = Empty
    /\ power_map_mean = Empty
    /\ doa_order = 0
    /\ result = Empty

Raise(type, at) ==
    /\ pc' = "error"
    /\ err' = [type |-> type, at |-> at]

\* SRP.__init__ with the spatial Nyquist check moved into the constructor
ConstructChecked(d, c, n, h, w, fs, fl, fh, r) ==
    /\ pc = "new"
    /\ self' = [d_inter |-> d, c |-> c, n_fft |-> n, hop_length |-> h, window |-> w,
                fs |-> fs, resolution |-> r, f_low |-> fl, f_high |-> fh]
    /\ IF fh # 0 /\ NyquistViolated(self') THEN Raise("ValueError", "__init__")
       ELSE pc' = "ready" /\ err' = err
    /\ UNCHANGED <<x, sig_stft, f_analog, n_frames, theta, pending,
                   response_abs, sweep_order, power_map, power_map_mean, doa_order, result>>

\* SRP.__init__: stores its arguments, validates nothing
Construct(d, c, n, h, w, fs, fl, fh, r) ==
    /\ pc = "new"
    /\ self' = [d_inter |-> d, c |-> c, n_fft |-> n, hop_length |-> h, window |-> w,
                fs |-> fs, resolution |-> r, f_low |-> fl, f_high |-> fh]
    /\ pc' = "ready"
    /\ UNCHANGED <<x, err, sig_stft, f_analog, n_frames, theta, pending,
                   response_abs, sweep_order, power_map, power_map_mean, doa_order, result>>

\* forward(x) up to and including self.spatial_nyquist_check()
SpatialNyquistCheck(in) ==
    /\ pc = "ready"
    /\ x' = in
    /\ IF 2 * self.f_high = 0 THEN Raise("ZeroDivisionError", "spatial_nyquist_check")
       ELSE IF NyquistViolated(self) THEN Raise("ValueError", "spatial_nyquist_check")
       ELSE pc' = "stft" /\ err' = err
    /\ UNCHANGED <<self, sig_stft, f_analog, n_frames, theta, pending,
                   response_abs, sweep_order, power_map, power_map_mean, doa_order, result>>

\* self.multi_channel_stft(x)
MultiChannelStft ==
    /\ pc = "stft"
    /\ IF StftRejects(self, x)
       THEN /\ Raise("RuntimeError", "multi_channel_stft")
            /\ UNCHANGED <<sig_stft, f_analog, n_frames>>
       ELSE LET raw == RawFrequencies(self)
                f_use_idx == [k \in DOMAIN raw |-> BandMask(self, raw[k])]
                rows == [k \in DOMAIN raw |-> k]
            IN  /\ f_analog' = Tensor(MaskSelect(raw, f_use_idx, Size(raw)))
                /\ sig_stft' = Tensor(MaskSelect(rows, f_use_idx, Size(raw)))
                /\ n_frames' = FrameCount(self, x)
                /\ pc' = "srp"
                /\ err' = err
    /\ UNCHANGED <<self, x, theta, pending, response_abs, sweep_order, power_map,
                   power_map_mean, doa_order, result>>

\* srp_ula up to the loop: the angle grid and the zeroed power map
SrpUlaSetup ==
    /\ pc = "srp"
    /\ IF self.resolution = 0
       THEN /\ Raise("ZeroDivisionError", "srp_ula")
            /\ UNCHANGED <<theta, pending, response_abs, sweep_order, power_map>>
       ELSE LET grid == ThetaGrid(self)
                F == Size(f_analog)
            IN  /\ theta' = grid
                /\ pending' = DOMAIN grid
                /\ power_map' = [f \in 0..(F - 1) |-> [a \in DOMAIN grid |-> Rat(0)]]
                /\ response_abs' =
                       [a \in DOMAIN grid |->
                           [f \in 0..(F - 1) |-> [t \in 0..(n_frames - 1) |-> 0]]]
                /\ sweep_order' = <<>>
                /\ pc' = "sweep"
                /\ err' = err
    /\ UNCHANGED <<self, x, sig_stft, f_analog, n_frames, power_map_mean,
                   doa_order, result>>

\* the magnitudes |response_complex| an iteration can compute: (F, T)
Columns == [DOMAIN f_analog -> [0..(n_frames - 1) -> Magnitudes]]

\* one iteration of the loop of srp_ula for angle index j
SweepIteration(j) ==
    /\ pc = "sweep"
    /\ j \in pending
    /\ \E col \in Columns :
          /\ response_abs' = [response_abs EXCEPT ![j] = col]
          /\ power_map' = WriteColumn(power_map, j, col)
    /\ sweep_order' = Append(sweep_order, j)
    /\ pending' = pending \ {j}
    /\ UNCHANGED <<pc, self, x, err, sig_stft, f_analog, n_frames, theta,
                   power_map_mean, doa_order, result>>

\* for j in range(len(theta)): the smallest index not yet processed
NextIndex == CHOOSE j \in pending : \A k \in pending : j <= k
Sweep == pending # {} /\ SweepIteration(NextIndex)

\* the same iterations taken in any order
SweepAnyOrder == \E j \in pending : SweepIteration(j)

\* the frequency mean, the arg-max and the return of srp_ula and forward
Aggregate ==
    /\ pc = "sweep"
    /\ pending = {}
    /\ LET curve == FrequencyMean(power_map, Size(theta))
           order == ArgMax(curve)
       IN  /\ power_map_mean' = curve
           /\ doa_order' = order
           /\ result' = <<AngleOf(self, order), curve>>
    /\ pc' = "done"
    /\ UNCHANGED <<self, x, err, sig_stft, f_analog, n_frames, theta, pending,
                   response_abs, sweep_order, power_map>>

New ==
    \E d \in DInterValues, c \in CValues, n \in NFftValues, h \in HopValues,
       w \in WindowLengthValues, fs \in FsValues, fl \in FLowValues, fh \in FHighValues, r \in ResolutionValues :
        Construct(d, c, n, h, w, fs, fl, fh, r)

Forward ==
    \E T \in SampleCounts, C \in ChannelCounts :
        SpatialNyquistCheck([n_samples |-> T, channels |-> C])

Next ==
    \/ New
    \/ Forward
    \/ MultiChannelStft
    \/ SrpUlaSetup
    \/ Sweep
    \/ Aggregate

Spec == Init /\ [][Next]_vars

NextAnyOrder ==
    \/ New
    \/ Forward
    \/ MultiChannelStft
    \/ SrpUlaSetup
    \/ SweepAnyOrder
    \/ Aggregate

SpecAnyOrder == Init /\ [][NextAnyOrder]_vars

\* ---------------------------------------------------------------- properties
Invoked == pc \notin {"new", "ready"}
TransformUntouched == sig_stft = Empty /\ f_analog = Empty /\ n_frames = 0
SweepUntouched == theta = Empty /\ power_map = Empty /\ sweep_order = Empty
NyquistError == [type |-> "ValueError", at |-> "spatial_nyquist_check"]

\* C1: an invocation of forward with d_inter > c / (2 * f_high) ends in the
\* ValueError of the spatial Nyquist check, raised before multi_channel_stft
\* and srp_ula have done anything and with no result returned; with
\* d_inter <= c / (2 * f_high), equality included, the check raises nothing
\* and the invocation goes on to the transform.
C1_NyquistGate ==
    (Invoked /\ self.f_high > 0) =>
        IF self.d_inter * (2 * self.f_high) > self.c
        THEN /\ pc = "error"
             /\ err = NyquistError
             /\ TransformUntouched
             /\ SweepUntouched
             /\ result = Empty
        ELSE /\ err.at # "spatial_nyquist_check"
             /\ \/ pc \in {"stft", "srp", "sweep", "done"}
                \/ pc = "error" /\ err.at \in {"multi_channel_stft", "srp_ula"}

\* the check has passed with d_inter exactly c / (2 * f_high) and the
\* transform has produced its frames
C1_Witness ==
    /\ pc = "srp"
    /\ self.d_inter * (2 * self.f_high) = self.c
    /\ n_frames > 0

\* C4 as stated: constructing with d_inter > c / (2 * f_high) raises at
\* construction time, so no usable instance exists; with d_inter strictly
\* smaller, construction succeeds.
C4_ConstructionRaises ==
    (pc # "new" /\ self.f_high > 0) =>
        IF self.d_inter * (2 * self.f_high) > self.c
        THEN pc = "error" /\ err.at = "__init__"
        ELSE err.at # "__init__"

\* C4 amended: construction always succeeds; on an instance with
\* d_inter > c / (2 * f_high) every forward call ends in the ValueError of
\* the spatial Nyquist check before any transform and returns nothing; with
\* d_inter strictly smaller the check raises nothing.
C4_CheckedAtForward ==
    (pc # "new" /\ self.f_high > 0) =>
        /\ err.at # "__init__"
        /\ self.d_inter * (2 * self.f_high) > self.c =>
              /\ pc \in {"ready", "error"}
              /\ pc = "error" => err = NyquistError
              /\ TransformUntouched
              /\ result = Empty
        /\ self.d_inter * (2 * self.f_high) < self.c =>
              err.at # "spatial_nyquist_check"

\* forward was called with a well-formed waveform on an instance built with
\* d_inter > c / (2 * f_high), and the check raised
C4_Witness ==
    /\ pc = "error"
    /\ err = NyquistError
    /\ self.d_inter * (2 * self.f_high) > self.c
    /\ x.n_samples > 0
    /\ x.channels > 0

\* frequency of raw bin k: n_fft // 2 + 1 uniformly spaced bins from 0 to fs / 2
BinFrequency(k) == <<k * self.fs, 2 * (self.n_fft \div 2)>>
InBand(k) ==
    /\ self.f_low * (2 * (self.n_fft \div 2)) <= k * self.fs
    /\ k * self.fs < self.f_high * (2 * (self.n_fft \div 2))
RawBins == 0..(self.n_fft \div 2)

\* C7: multi_channel_stft retains exactly the raw bins with
\* f_low <= f < f_high, in their original order, and masks the frequency
\* axis and the spectrum alike: both have the same length and entry i of the
\* axis is the frequency of row i of the spectrum.
C7_BandMaskAligned ==
    pc \in {"srp", "sweep", "done"} =>
        /\ DOMAIN f_analog = DOMAIN sig_stft
        /\ \A i \in DOMAIN sig_stft : RatEq(f_analog[i], BinFrequency(sig_stft[i]))
        /\ {sig_stft[i] : i \in DOMAIN sig_stft} = {k \in RawBins : InBand(k)}
        /\ \A i, k \in DOMAIN sig_stft : i < k => sig_stft[i] < sig_stft[k]

\* a band whose lower edge lies on a retained bin and whose upper edge lies
\* on a dropped bin
C7_Witness ==
    /\ pc = "srp"
    /\ DOMAIN sig_stft = {0}
    /\ RatEq(f_analog[0], Rat(self.f_low))
    /\ \E k \in RawBins : RatEq(BinFrequency(k), Rat(self.f_high))

Returned == pc = "done"
Rows == DOMAIN f_analog
Frames == 0..(n_frames - 1)
Angles == DOMAIN theta

\* C5: with at least one frequency row, power_curve[a] is the unweighted
\* mean over the retained rows of grid[f][a], the winning index is the
\* smallest index at which power_curve attains its maximum, and the angle
\* returned is index * resolution - 90.
C5_MeanAndStableArgMax ==
    (Returned /\ Rows # {}) =>
        LET curve == result[2]
        IN  /\ DOMAIN curve = Angles
            /\ \A a \in Angles :
                  RatEq(RatMulInt(curve[a], Size(f_analog)),
                        SumRat([f \in Rows |-> power_map[f][a]], Size(f_analog)))
            /\ doa_order \in Angles
            /\ \A a \in Angles : RatLe(curve[a], curve[doa_order])
            /\ \A a \in Angles : a < doa_order => RatLt(curve[a], curve[doa_order])
            /\ result[1] = doa_order * self.resolution - 90

\* two frequency rows with different powers, and a non-zero maximum of the
\* curve attained at two angles
C5_Witness ==
    /\ Returned
    /\ Size(f_analog) = 2
    /\ \E a \in Angles : ~RatEq(power_map[0][a], power_map[1][a])
    /\ \E a \in Angles : a > doa_order /\ RatEq(result[2][a], result[2][doa_order])
    /\ RatLt(Rat(0), result[2][doa_order])

\* C9: the power stored for row f and an angle already swept is the square
\* of the mean over the frames of the response magnitude, and differs from
\* the mean of the squared magnitudes whenever the magnitudes of the frames
\* are not all equal.
C9_MagnitudeMeanThenSquare ==
    pc \in {"sweep", "done"} =>
        \A j \in Angles \ pending : \A f \in Rows :
            LET m == response_abs[j][f]
                total == SumInt(m, n_frames)
                squares == SumInt([t \in Frames |-> m[t] * m[t]], n_frames)
            IN  /\ RatEq(power_map[f][j], <<total * total, n_frames * n_frames>>)
                /\ (\E t, u \in Frames : m[t] # m[u]) =>
                      ~RatEq(power_map[f][j], <<squares, n_frames>>)

\* a column written from two frames of different, non-zero magnitude
C9_Witness ==
    /\ pc = "sweep"
    /\ \E j \in Angles \ pending : \E f \in Rows :
          /\ n_frames = 2
          /\ response_abs[j][f][0] > 0
          /\ response_abs[j][f][1] > response_abs[j][f][0]

\* the power grid the in-order loop builds from the recorded responses
RECURSIVE InOrderGrid(_)
InOrderGrid(n) ==
    IF n = 0 THEN [f \in Rows |-> [a \in Angles |-> Rat(0)]]
    ELSE WriteColumn(InOrderGrid(n - 1), n - 1, response_abs[n - 1])

\* C8: whatever the order of the iterations, an iteration writes only its
\* own column (columns still pending hold their zeros, columns swept hold
\* their own power), every column is written exactly once, and the final
\* grid, power curve and winning index are those of the in-order loop.
C8_OrderIndependent ==
    /\ pc = "sweep" =>
          /\ \A j \in pending : \A f \in Rows : power_map[f][j] = Rat(0)
          /\ \A j \in Angles \ pending : \A f \in Rows :
                power_map[f][j] = ResponsePower(response_abs[j][f])
    /\ Returned =>
          /\ Len(sweep_order) = Size(theta)
          /\ \A j \in Angles : Cardinality({i \in 1..Len(sweep_order) : sweep_order[i] = j}) = 1
          /\ power_map = InOrderGrid(Size(theta))
          /\ power_map_mean = FrequencyMean(InOrderGrid(Size(theta)), Size(theta))
          /\ doa_order = ArgMax(power_map_mean)

\* a finished sweep that ran the last angle first, over non-zero responses
C8_Witness ==
    /\ Returned
    /\ sweep_order = <<1, 0>>
    /\ Rows # {}
    /\ \A j \in Angles : \E f \in Rows : RatLt(Rat(0), power_map[f][j])
    /\ doa_order = 1

\* C2 as stated: when the band mask retains no bin, forward never reaches
\* the frequency mean and the arg-max and never returns a result.
C2_EmptyBandRejected ==
    (Invoked /\ {k \in RawBins : InBand(k)} = {}) =>
        /\ ~Returned
        /\ result = Empty

\* C3 as stated: a resolution that evenly divides 180 gives a power curve of
\* 180 / resolution + 1 entries; with a resolution that does not, the
\* construction raises, so no grid is built and nothing is returned.
C3_ResolutionValidated ==
    (pc # "new" /\ self.resolution > 0) =>
        IF 180 % self.resolution = 0
        THEN Returned => Size(result[2]) = (180 \div self.resolution) + 1
        ELSE /\ pc = "error"
             /\ err.at = "__init__"
             /\ SweepUntouched
             /\ result = Empty

\* C6 as stated: a waveform with no samples or no channels is rejected by
\* forward before multi_channel_stft begins, and nothing is returned.
C6_EmptyInputRejected ==
    (Invoked /\ (x.n_samples = 0 \/ x.channels = 0)) =>
        /\ pc = "error"
        /\ err.at \notin {"multi_channel_stft", "srp_ula"}
        /\ result = Empty

\* C10 as stated: the angle returned, index * resolution - 90, is the
\* candidate angle theta[index] steered to in the sweep and lies in
\* [-90, 90].
C10_ReturnedAngleOnGrid ==
    Returned =>
        /\ RatEq(Rat(result[1]), theta[doa_order])
        /\ -90 <= result[1]
        /\ result[1] <= 90
====
